---- MODULE Spec2Model ----
(***************************************************************************)
(* A model of the 2048 game: the board engine of src/utils/board.ts and    *)
(* the session hook of src/hooks/useGameLogic.ts.                          *)
(*                                                                         *)
(* A board is a sequence of rows, a row a sequence of tile values, 0 the   *)
(* empty cell.  The source indexes rows and columns from 0; sequences here *)
(* are indexed from 1, so the source's cell (r, c) is board[r+1][c+1] and  *)
(* the source's size-1-r is size+1-r here.                                 *)
(***************************************************************************)
EXTENDS Integers, Sequences, FiniteSets, TLC

VARIABLES
    boardSize,   \* useGameLogic's argument (App's boardSize state)
    board,       \* useState: board
    score,       \* useState: score
    highScore,   \* useState: highScore
    isGameOver,  \* useState: isGameOver
    hasWon,      \* useState: hasWon
    listener,    \* the board and isGameOver that the registered listeners' handleMove closes over
    stored,      \* localStorage: the item 'highScore2048'
    storage,     \* localStorage: how its calls behave in this browser
    loaded,      \* history: the high score loaded at mount
    best,        \* history: the largest score reached since mount
    last,        \* history: the input handled last and what handleMove computed for it
    committed,   \* history: sum of the deltas of the moves committed since the last (re)start
    spawned,     \* history: sum of the values of the tiles drawn and placed since the last (re)start
    moves,       \* exploration: moves committed since the last (re)start or the recorded play
    restarts,    \* exploration: restarts so far
    resizes,     \* exploration: accepted size changes so far
    tape,        \* position in the recorded play (0: no play is being followed)
    call         \* the engine function applied to an input value, and its result

vars == <<boardSize, board, score, highScore, isGameOver, hasWon, listener, stored, storage, loaded, best,
          last, committed, spawned, moves, restarts, resizes, tape, call>>

hookVars == <<boardSize, board, score, highScore, isGameOver, hasWon, listener, stored, storage, loaded, best,
              last, committed, spawned, moves, restarts, resizes, tape>>

-----------------------------------------------------------------------------
(* Bounds of the exploration.                                              *)

\* tiles of the enumerated inputs are 2^1 .. 2^MaxExp
MaxExp == 3
\* enumerated lines have 0 .. MaxLen cells
MaxLen == 4

-----------------------------------------------------------------------------
(* src/utils/board.ts                                                      *)

RECURSIVE Pow2(_)
Pow2(n) == IF n = 0 THEN 1 ELSE 2 * Pow2(n - 1)

\* a filter that keeps every cell of row[i..], the empty ones too
filterFrom_keepZeros(row, i) == SubSeq(row, i, Len(row))

\* the loop of lines 59-63: the non-zero cells of row[i..], in order
RECURSIVE filterFrom(_, _)
filterFrom(row, i) ==
    IF i > Len(row) THEN <<>>
    ELSE IF row[i] # 0 THEN <<row[i]>> \o filterFrom(row, i + 1)
    ELSE filterFrom(row, i + 1)

\* a merge loop with score += ... after the if, adding every value it pushes
RECURSIVE mergeFrom_scoreEveryPush(_, _, _, _)
mergeFrom_scoreEveryPush(filtered, i, newRow, sc) ==
    IF i > Len(filtered) THEN [newRow |-> newRow, score |-> sc]
    ELSE IF i + 1 <= Len(filtered) /\ filtered[i] = filtered[i + 1]
         THEN mergeFrom_scoreEveryPush(filtered, i + 2, Append(newRow, filtered[i] * 2),
                                       sc + filtered[i] * 2)
         ELSE mergeFrom_scoreEveryPush(filtered, i + 1, Append(newRow, filtered[i]),
                                       sc + filtered[i])

\* a merge loop that merges a tile into the tile pushed last whenever the two are
\* equal, so that a merged tile can merge again within one move
RECURSIVE mergeFrom_cascade(_, _, _, _)
mergeFrom_cascade(filtered, i, newRow, sc) ==
    IF i > Len(filtered) THEN [newRow |-> newRow, score |-> sc]
    ELSE IF newRow # <<>> /\ newRow[Len(newRow)] = filtered[i]
         THEN mergeFrom_cascade(filtered, i + 1,
                                [newRow EXCEPT ![Len(newRow)] = filtered[i] * 2],
                                sc + filtered[i] * 2)
         ELSE mergeFrom_cascade(filtered, i + 1, Append(newRow, filtered[i]), sc)

\* the loop of lines 68-77 from index i on, with the newRow and score built so far
RECURSIVE mergeFrom(_, _, _, _)
mergeFrom(filtered, i, newRow, sc) ==
    IF i > Len(filtered) THEN [newRow |-> newRow, score |-> sc]
    ELSE IF i + 1 <= Len(filtered) /\ filtered[i] = filtered[i + 1]
         THEN mergeFrom(filtered, i + 2, Append(newRow, filtered[i] * 2), sc + filtered[i] * 2)
         ELSE mergeFrom(filtered, i + 1, Append(newRow, filtered[i]), sc)

\* a padding loop that runs once too often (<= for the < of line 80)
RECURSIVE padTo_oneMore(_, _)
padTo_oneMore(newRow, size) ==
    IF Len(newRow) <= size THEN padTo_oneMore(Append(newRow, 0), size) ELSE newRow

\* the loop of lines 80-82
RECURSIVE padTo(_, _)
padTo(newRow, size) ==
    IF Len(newRow) < size THEN padTo(Append(newRow, 0), size) ELSE newRow

\* a merge loop that forgets the i++ of line 73: the partner of a merged tile is visited again
RECURSIVE mergeFrom_noSkip(_, _, _, _)
mergeFrom_noSkip(filtered, i, newRow, sc) ==
    IF i > Len(filtered) THEN [newRow |-> newRow, score |-> sc]
    ELSE IF i + 1 <= Len(filtered) /\ filtered[i] = filtered[i + 1]
         THEN mergeFrom_noSkip(filtered, i + 1, Append(newRow, filtered[i] * 2), sc + filtered[i] * 2)
         ELSE mergeFrom_noSkip(filtered, i + 1, Append(newRow, filtered[i]), sc)

slideAndMerge_noSkip(row) ==
    LET m == mergeFrom_noSkip(filterFrom(row, 1), 1, <<>>, 0)
    IN  [newRow |-> padTo(m.newRow, Len(row)), score |-> m.score]

slideAndMerge(row) ==
    LET m == mergeFrom(filterFrom(row, 1), 1, <<>>, 0)
    IN  [newRow |-> padTo(m.newRow, Len(row)), score |-> m.score]

\* lines 4-6
createEmptyBoard(size) == [r \in 1..size |-> [c \in 1..size |-> 0]]

\* lines 11-21: the loops from cell (r, c) on, row by row; coordinates are <<row, column>>
RECURSIVE emptyCellsFrom(_, _, _)
emptyCellsFrom(b, r, c) ==
    IF r > Len(b) THEN <<>>
    ELSE IF c > Len(b[r]) THEN emptyCellsFrom(b, r + 1, 1)
    ELSE IF b[r][c] = 0 THEN <<(<<r, c>>)>> \o emptyCellsFrom(b, r, c + 1)
    ELSE emptyCellsFrom(b, r, c + 1)

getEmptyCells(b) == emptyCellsFrom(b, 1, 1)

RECURSIVE SumFrom(_, _)
\* the sum of the cells line[i..]
SumFrom(line, i) == IF i > Len(line) THEN 0 ELSE line[i] + SumFrom(line, i + 1)

RECURSIVE TileSumFrom(_, _)
TileSumFrom(b, r) == IF r > Len(b) THEN 0 ELSE SumFrom(b[r], 1) + TileSumFrom(b, r + 1)

\* the sum of the cells of a board.  initBoard places its draws on an empty board
\* (lines 36-53), so on a fresh board this is the sum of the tiles drawn for it.
TileSum(b) == TileSumFrom(b, 1)

\* The two draws of Math.random() in lines 30-31 are inputs: pick is the value of
\* Math.floor(Math.random() * emptyCells.length), one of 0 .. length-1, and tile the
\* value of (Math.random() < 0.9 ? 2 : 4).  NoCoords is the null of line 28.
NoCoords == <<>>

\* an addRandomTile that draws among all cells, not only the empty ones
addRandomTile_anyCell(b, pick, tile) ==
    LET r == (pick \div Len(b)) + 1
        c == (pick % Len(b)) + 1
    IN  [newBoard |-> [b EXCEPT ![r][c] = tile], newTileCoords |-> <<r, c>>]

addRandomTile(b, pick, tile) ==
    LET emptyCells == getEmptyCells(b)
    IN  IF Len(emptyCells) = 0
        THEN [newBoard |-> b, newTileCoords |-> NoCoords]
        ELSE LET rc == emptyCells[pick + 1]
             IN  [newBoard |-> [b EXCEPT ![rc[1]][rc[2]] = tile], newTileCoords |-> rc]

\* the values Math.floor(Math.random() * n) can take (no draw is made when n = 0)
Picks(n) == IF n = 0 THEN {0} ELSE 0..(n - 1)

SpawnTiles == {2, 4}

\* a rotateRight that writes newGrid[c][r] = grid[r][c]
rotateRight_transpose(grid) ==
    LET size == Len(grid)
    IN  [i \in 1..size |-> [j \in 1..size |-> grid[j][i]]]

\* lines 87-96: newGrid[c][size-1-r] = grid[r][c]
rotateRight(grid) ==
    LET size == Len(grid)
    IN  [i \in 1..size |-> [j \in 1..size |-> grid[size + 1 - j][i]]]

\* a rotateLeft that turns the grid the other way
rotateLeft_clockwise(grid) ==
    LET size == Len(grid)
    IN  [i \in 1..size |-> [j \in 1..size |-> grid[size + 1 - j][i]]]

\* lines 99-108: newGrid[size-1-c][r] = grid[r][c]
rotateLeft(grid) ==
    LET size == Len(grid)
    IN  [i \in 1..size |-> [j \in 1..size |-> grid[j][size + 1 - i]]]

\* [...row].reverse()
reverse(row) == [i \in 1..Len(row) |-> row[Len(row) + 1 - i]]

RECURSIVE totalScoreFrom(_, _)
totalScoreFrom(b, r) ==
    IF r > Len(b) THEN 0 ELSE slideAndMerge(b[r]).score + totalScoreFrom(b, r + 1)

\* lines 111-119
operate(b) ==
    [newBoard |-> [r \in 1..Len(b) |-> slideAndMerge(b[r]).newRow],
     score |-> totalScoreFrom(b, 1)]

moveLeft(b) == operate(b)

moveRight(b) ==
    LET reversed == [r \in 1..Len(b) |-> reverse(b[r])]
        res == operate(reversed)
    IN  [newBoard |-> [r \in 1..Len(b) |-> reverse(res.newBoard[r])], score |-> res.score]

moveUp(b) ==
    LET res == operate(rotateLeft(b))
    IN  [newBoard |-> rotateRight(res.newBoard), score |-> res.score]

moveDown(b) ==
    LET res == operate(rotateRight(b))
    IN  [newBoard |-> rotateLeft(res.newBoard), score |-> res.score]

Directions == {"ArrowLeft", "ArrowRight", "ArrowUp", "ArrowDown"}

\* the switch of useGameLogic.ts lines 84-97
moveFunc(key, b) ==
    CASE key = "ArrowUp" -> moveUp(b)
      [] key = "ArrowDown" -> moveDown(b)
      [] key = "ArrowLeft" -> moveLeft(b)
      [] key = "ArrowRight" -> moveRight(b)

\* lines 149-160
areBoardsEqual(b1, b2) ==
    /\ Len(b1) = Len(b2)
    /\ \A i \in 1..Len(b1) :
          /\ Len(b1[i]) = Len(b2[i])
          /\ \A j \in 1..Len(b1[i]) : b1[i][j] = b2[i][j]

WinTile == 2048

\* a hasWon that takes any tile of at least 2048 for the win
checkWin_atLeast(b) == \E r \in 1..Len(b) : \E c \in 1..Len(b[r]) : b[r][c] >= WinTile

\* lines 163-165 (hasWon, imported by the hook as checkWin)
checkWin(b) == \E r \in 1..Len(b) : \E c \in 1..Len(b[r]) : b[r][c] = WinTile

\* a canMove that compares each cell with its right neighbour only
canMove_rowsOnly(b) ==
    LET size == Len(b)
    IN  \E r \in 1..size : \E c \in 1..size : c < size /\ b[r][c] = b[r][c + 1]

\* lines 168-178
canMove(b) ==
    LET size == Len(b)
    IN  \E r \in 1..size : \E c \in 1..size :
           \/ r < size /\ b[r][c] = b[r + 1][c]
           \/ c < size /\ b[r][c] = b[r][c + 1]

\* an isGameOver that ends the game on every full board
checkGameOver_fullBoard(b) == Len(getEmptyCells(b)) = 0

\* lines 181-185 (isGameOver, imported by the hook as checkGameOver)
checkGameOver(b) ==
    LET hasEmptyCells == Len(getEmptyCells(b)) > 0
    IN  IF hasEmptyCells THEN FALSE ELSE ~canMove(b)

\* no engine function is being exercised
NoCall == [fn |-> "none"]

-----------------------------------------------------------------------------
(* src/hooks/useGameLogic.ts                                               *)

\* board.ts lines 36-53; pick1, tile1 and pick2, tile2 are the draws of its two
\* addRandomTile calls
\* an initBoard that calls addRandomTile once
initBoard_oneTile(size, pick1, tile1, pick2, tile2) ==
    LET result1 == addRandomTile(createEmptyBoard(size), pick1, tile1)
    IN  [board |-> result1.newBoard,
         newTiles |-> IF result1.newTileCoords # NoCoords THEN <<result1.newTileCoords>> ELSE <<>>]

\* lines 36-53, for the draws of its two calls of addRandomTile
initBoard(size, pick1, tile1, pick2, tile2) ==
    LET empty == createEmptyBoard(size)
        result1 == addRandomTile(empty, pick1, tile1)
        board1 == IF result1.newTileCoords # NoCoords THEN result1.newBoard ELSE empty
        tiles1 == IF result1.newTileCoords # NoCoords THEN <<result1.newTileCoords>> ELSE <<>>
        result2 == addRandomTile(board1, pick2, tile2)
        board2 == IF result2.newTileCoords # NoCoords THEN result2.newBoard ELSE board1
        tiles2 == IF result2.newTileCoords # NoCoords THEN Append(tiles1, result2.newTileCoords) ELSE tiles1
    IN  [board |-> board2, newTiles |-> tiles2]

\* every board initBoard(size) can return
initBoards(size) ==
    UNION { LET n1 == Len(getEmptyCells(addRandomTile(createEmptyBoard(size), pick1, tile1).newBoard))
            IN  { initBoard(size, pick1, tile1, pick2, tile2).board :
                    pick2 \in Picks(n1), tile2 \in SpawnTiles }
          : pick1 \in Picks(size * size), tile1 \in SpawnTiles }

\* src/App.tsx line 9: useState(4)
DefaultSize == 4

\* the board sizes of the sessions explored: useGameLogic takes any number, and the
\* sessions here take the sizes up to App's default
HookSizes == 0..DefaultSize

\* initBoards, tabulated
freshBoards == [size \in HookSizes |-> initBoards(size)]

\* an effect that shows the current score as the high score
highScoreEffect_follow(sc, hs) == IF sc > 0 THEN sc ELSE hs

\* lines 36-45: the effect that follows every change of score or highScore
highScoreEffect(sc, hs) == IF sc > hs /\ sc > 0 THEN sc ELSE hs

-----------------------------------------------------------------------------
(* localStorage.  The item is absent (getItem returns null) or a string, a *)
(* string being a sequence of characters.  A browser's storage works, or   *)
(* is full (setItem throws), or is denied (getItem and setItem throw).     *)

NoItem == <<>>

Item(string) == <<string>>

StorageModes == {"works", "full", "denied"}

getItemThrows(mode) == mode = "denied"

setItemThrows(mode) == mode \in {"full", "denied"}

DigitChars == <<"0", "1", "2", "3", "4", "5", "6", "7", "8", "9">>

IsDigit(ch) == \E d \in 1..10 : DigitChars[d] = ch

DigitValue(ch) == (CHOOSE d \in 1..10 : DigitChars[d] = ch) - 1

\* the characters parseInt skips at the start of its argument
IsWhiteSpace(ch) == ch = " "

RECURSIVE trimStart(_)
trimStart(string) ==
    IF string # <<>> /\ IsWhiteSpace(string[1]) THEN trimStart(Tail(string)) ELSE string

\* the value of the longest prefix of digits, read after the digits worth acc, and
\* whether a digit was read
RECURSIVE digitsFrom(_, _, _)
digitsFrom(string, acc, any) ==
    IF string # <<>> /\ IsDigit(string[1])
    THEN digitsFrom(Tail(string), 10 * acc + DigitValue(string[1]), TRUE)
    ELSE [isNaN |-> ~any, value |-> acc]

\* parseInt(string, 10): white space, then a sign, then digits up to the first character
\* that is none; NaN when there is no digit
parseInt(string) ==
    LET trimmed == trimStart(string)
        signed  == trimmed # <<>> /\ trimmed[1] \in {"-", "+"}
        digits  == digitsFrom(IF signed THEN Tail(trimmed) ELSE trimmed, 0, FALSE)
    IN  IF digits.isNaN THEN digits
        ELSE [isNaN |-> FALSE,
              value |-> IF signed /\ trimmed[1] = "-" THEN 0 - digits.value ELSE digits.value]

\* String(n) of a natural number
RECURSIVE String(_)
String(n) ==
    IF n < 10 THEN <<DigitChars[n + 1]>>
    ELSE String(n \div 10) \o <<DigitChars[(n % 10) + 1]>>

\* lines 22-34: the high score after the effect that loads it at mount
loadHighScore(item, mode) ==
    IF getItemThrows(mode) THEN 0
    ELSE IF item = NoItem \/ item[1] = <<>> THEN 0
    ELSE LET parsedScore == parseInt(item[1])
         IN  IF ~parsedScore.isNaN /\ parsedScore.value >= 0 THEN parsedScore.value ELSE 0

\* an effect that raises highScore without the call of setItem
storedAfter_noWrite(sc, hs, item, mode) == item

\* lines 37-44: the item after the effect that follows a change of score or highScore
storedAfter(sc, hs, item, mode) ==
    IF sc > hs /\ sc > 0 /\ ~setItemThrows(mode) THEN Item(String(sc)) ELSE item

\* a handler that does not look at isGameOver
moveIgnored_never(over) == FALSE

\* line 61: if (isGameOver) return
moveIgnored(over) == over

\* a handler that spawns and commits whatever the move returned
moveAccepted_always(b, newBoard) == TRUE

\* line 65
moveAccepted(b, newBoard) == ~areBoardsEqual(b, newBoard)

\* a setScore(moveScore) in place of the functional update
scoreAfter_overwrite(prevScore, moveScore) == moveScore

\* line 68: setScore(prevScore => prevScore + moveScore)
scoreAfter(prevScore, moveScore) == prevScore + moveScore

\* a handler without the win check of lines 70-73
flagsAfter_overOnly(boardWithNewTile, over, won) ==
    IF checkGameOver(boardWithNewTile) THEN [hasWon |-> won, isGameOver |-> TRUE]
    ELSE [hasWon |-> won, isGameOver |-> over]

\* a handler without the else-if of line 74
flagsAfter_winOnly(boardWithNewTile, over, won) ==
    IF checkWin(boardWithNewTile) THEN [hasWon |-> TRUE, isGameOver |-> TRUE]
    ELSE [hasWon |-> won, isGameOver |-> over]

\* lines 70-76: the flags set for the board that now shows, given the flags before
flagsAfter(boardWithNewTile, over, won) ==
    IF checkWin(boardWithNewTile) THEN [hasWon |-> TRUE, isGameOver |-> TRUE]
    ELSE IF checkGameOver(boardWithNewTile) THEN [hasWon |-> won, isGameOver |-> TRUE]
    ELSE [hasWon |-> won, isGameOver |-> over]

\* a handler that commits the move's board without the call of addRandomTile
spawnAfterMove_none(newBoard, pick, tile) == newBoard

\* line 66: const { newBoard: boardWithNewTile } = addRandomTile(newBoard)
spawnAfterMove(newBoard, pick, tile) == addRandomTile(newBoard, pick, tile).newBoard

\* a useCallback whose dependency array lacks board: handleMove is made anew only when
\* isGameOver changed
listenerAfter_noBoardDep(old, b, over) ==
    IF over # old.isGameOver THEN [board |-> b, isGameOver |-> over] ELSE old

\* lines 78 and 80-110 (113-168 for touch): a render makes handleMove anew when board
\* or isGameOver is not what the last one closed over, and the effects then remove the
\* listeners and add them again with the new handleMove.  A key press or a touch is a
\* discrete event: the render and the effects its state updates cause are over before
\* the browser delivers the next event.
listenerAfter(old, b, over) ==
    IF b # old.board \/ over # old.isGameOver THEN [board |-> b, isGameOver |-> over] ELSE old

\* lines 60-78, for the move function of key and the draws pick, tile of addRandomTile,
\* followed by the effects of lines 36-45 and 80-110.  board and isGameOver are read
\* from the closure of the handleMove that the listener was registered with; the
\* updater of line 68 gets the score of the state.
handleMove(key, pick, tile) ==
    LET res == moveFunc(key, listener.board)
        boardWithNewTile == spawnAfterMove(res.newBoard, pick, tile)
        flags == flagsAfter(boardWithNewTile, isGameOver, hasWon)
    IN  IF moveIgnored(listener.isGameOver)
        THEN UNCHANGED <<board, score, highScore, isGameOver, hasWon, listener, stored>>
        ELSE IF moveAccepted(listener.board, res.newBoard)
        THEN /\ board' = boardWithNewTile
             /\ score' = scoreAfter(score, res.score)
             /\ hasWon' = flags.hasWon
             /\ isGameOver' = flags.isGameOver
             /\ listener' = listenerAfter(listener, board', isGameOver')
             /\ highScore' = highScoreEffect(score', highScore)
             /\ stored' = storedAfter(score', highScore, stored, storage)
        ELSE UNCHANGED <<board, score, highScore, isGameOver, hasWon, listener, stored>>

\* a restartGame without setIsGameOver(false) and setHasWon(false)
restartGame_keepFlags ==
    /\ board' \in freshBoards[boardSize]
    /\ score' = 0
    /\ UNCHANGED <<isGameOver, hasWon>>
    /\ listener' = listenerAfter(listener, board', isGameOver')
    /\ highScore' = highScoreEffect(score', highScore)
    /\ stored' = storedAfter(score', highScore, stored, storage)

\* lines 47-53, followed by the effect of lines 36-45
restartGame ==
    /\ board' \in freshBoards[boardSize]
    /\ score' = 0
    /\ isGameOver' = FALSE
    /\ hasWon' = FALSE
    /\ listener' = listenerAfter(listener, board', isGameOver')
    /\ highScore' = highScoreEffect(score', highScore)
    /\ stored' = storedAfter(score', highScore, stored, storage)

-----------------------------------------------------------------------------
(* Inputs.  A key press (lines 81-103) and a swipe (lines 125-159) both    *)
(* end in handleMove with one of the four move functions; the history      *)
(* variables record what could be observed of the step.                    *)

KeyDown(key) ==
    /\ \E pick \in Picks(Len(getEmptyCells(moveFunc(key, listener.board).newBoard))), tile \in SpawnTiles :
          /\ handleMove(key, pick, tile)
          /\ spawned' = IF board' = board THEN spawned ELSE spawned + tile
    /\ last' = [op |-> "move", key |-> key,
                outcome |-> IF isGameOver THEN "ignored"
                            ELSE IF board' = board THEN "noop" ELSE "committed"]
    /\ committed' = IF board' = board THEN committed
                    ELSE committed + moveFunc(key, board).score
    /\ moves' = IF board' = board THEN moves ELSE moves + 1
    /\ best' = IF score' > best THEN score' ELSE best
    /\ UNCHANGED <<boardSize, storage, loaded>>

Restart ==
    /\ restartGame
    /\ last' = [op |-> "restart", key |-> "none", outcome |-> "none"]
    /\ committed' = 0
    /\ spawned' = TileSum(board')
    /\ moves' = 0
    /\ restarts' = restarts + 1
    /\ UNCHANGED <<boardSize, storage, loaded, best>>

\* a guard that lets a 2 x 2 board through
sizeAccepted_from2(newSize) == newSize >= 2 /\ newSize <= 8

\* src/App.tsx line 27
sizeAccepted(newSize) == newSize >= 3 /\ newSize <= 8

\* src/App.tsx lines 26-30, followed by the hook's effect of lines 56-58: setBoardSize
\* with a new value renders the hook with it, and the effect calls the restartGame of
\* that render (lines 47-53); setBoardSize with the current value renders nothing
handleSizeChange(newSize) ==
    IF sizeAccepted(newSize) /\ newSize # boardSize
    THEN /\ boardSize' = newSize
         /\ board' \in freshBoards[newSize]
         /\ score' = 0
         /\ isGameOver' = FALSE
         /\ hasWon' = FALSE
         /\ listener' = listenerAfter(listener, board', isGameOver')
         /\ highScore' = highScoreEffect(score', highScore)
         /\ stored' = storedAfter(score', highScore, stored, storage)
    ELSE UNCHANGED <<boardSize, board, score, highScore, isGameOver, hasWon, listener, stored>>

\* a click of Settings, or any other call of handleSizeChange
SizeChange(newSize) ==
    /\ handleSizeChange(newSize)
    /\ last' = [op |-> "resize", key |-> "none", outcome |-> "none", size |-> newSize]
    /\ committed' = IF boardSize' # boardSize THEN 0 ELSE committed
    /\ spawned' = IF boardSize' # boardSize THEN TileSum(board') ELSE spawned
    /\ moves' = IF boardSize' # boardSize THEN 0 ELSE moves
    /\ resizes' = IF boardSize' # boardSize THEN resizes + 1 ELSE resizes
    /\ UNCHANGED <<storage, loaded, best>>

\* whether handling key now commits a move
Commits(key) == ~isGameOver /\ ~areBoardsEqual(board, moveFunc(key, board).newBoard)

-----------------------------------------------------------------------------
(* Sessions of the hook at the smallest board size that has a move.  Init   *)
(* is the state once the mount effects (lines 22-34 with nothing stored,    *)
(* and lines 56-58) have run.  Inputs are explored as long as they commit   *)
(* no more than MaxMoves moves in a session.                                *)

\* moves committed in one session
MaxMoves == 3
\* restarts in one run
MaxRestarts == 1

Init ==
    /\ boardSize = 2
    /\ board \in freshBoards[boardSize]
    /\ score = 0
    /\ stored = NoItem
    /\ storage = "works"
    /\ highScore = loadHighScore(stored, storage)
    /\ loaded = highScore
    /\ best = 0
    /\ isGameOver = FALSE
    /\ hasWon = FALSE
    /\ last = [op |-> "init", key |-> "none", outcome |-> "none"]
    /\ committed = 0
    /\ moves = 0
    /\ restarts = 0
    /\ resizes = 0
    /\ tape = 0
    /\ listener = [board |-> board, isGameOver |-> isGameOver]
    /\ spawned = TileSum(board)
    /\ call = NoCall

Next ==
    \/ \E key \in Directions :
          /\ moves < MaxMoves \/ ~Commits(key)
          /\ KeyDown(key)
          /\ UNCHANGED <<restarts, resizes, tape, call>>
    \/ restarts < MaxRestarts /\ Restart /\ UNCHANGED <<resizes, tape, call>>

Spec == Init /\ [][Next]_vars

-----------------------------------------------------------------------------
(* A session at App's default size that follows a recorded play up to a    *)
(* board one move from the 2048 tile, and is explored from there: inputs   *)
(* that commit no more than MaxSteps moves, then restarts.  (What follows  *)
(* a restart is a fresh session; those are explored by Spec.)              *)

\* moves committed after the recorded play
MaxSteps == 1

\* one entry per accepted input: 1000 * key + 10 * pick + tile,
\* key 1 = ArrowLeft, 2 = ArrowRight, 3 = ArrowUp, 4 = ArrowDown
RecordedPlay == <<
    1014, 1004, 1004, 1004, 1014, 1004, 1004, 1004, 1014, 1004, 1004, 1004,
    1044, 3034, 3044, 1004, 1004, 1004, 3004, 1004, 1004, 1004, 2064, 3034,
    1004, 1004, 1004, 2024, 3014, 1004, 2054, 3054, 3014, 3014, 1004, 1004,
    1004, 3004, 2064, 3034, 1004, 1004, 1004, 2024, 3014, 1004, 2054, 3054,
    3054, 3024, 1004, 1004, 1004, 2084, 3064, 3034, 1004, 2094, 3024, 3024,
    2014, 2014, 2024, 2094, 3024, 1004, 1004, 1004, 3004, 1004, 2064, 3034,
    1004, 1004, 1004, 2024, 3014, 1004, 2054, 3054, 3054, 3024, 1004, 1004,
    1004, 2084, 3064, 3034, 1004, 2094, 3024, 3024, 2014, 2014, 2014, 2044,
    3024, 1004, 1004, 1004, 2044, 3024, 2064, 3034, 1004, 2094, 3024, 3024,
    2014, 2014, 2014, 2044, 3024, 1004, 2044, 3034, 2024, 3014, 2024, 2094,
    3014, 2014, 2014, 2014, 2004, 2004, 2004, 2004, 2014, 3014, 1004, 1004,
    1004, 3004, 2064, 3034, 1004, 1004, 1004, 2024, 3014, 1004, 2054, 3054,
    3054, 3024, 1004, 1004, 1004, 2084, 3064, 3034, 1004, 2094, 3024, 3024,
    2014, 2014, 2014, 2044, 3024, 1004, 1004, 1004, 2044, 3024, 2064, 3034,
    1004, 2094, 3024, 3024, 2014, 2014, 2014, 2044, 3024, 1004, 2044, 3034,
    2024, 3014, 2024, 2094, 3014, 2014, 2014, 2014, 2004, 2004, 2004, 2004,
    2014, 3014, 1004, 1004, 3014, 2034, 3014, 2044, 3024, 1004, 2044, 3034,
    2024, 3014, 2014, 2044, 3024, 1004, 2044, 3034, 2024, 3014, 2024, 2094,
    3014, 2014, 2014, 2014, 2004, 2004, 2004, 2004, 2014, 3014, 1004, 2044,
    3044, 3024, 3024, 2094, 3014, 2014, 2014, 2014, 2004, 2004, 2014, 2024,
    2024, 3014, 2014, 2014, 2004, 2004, 2004, 2004, 2004, 2004, 2004, 2004,
    2064, 3054, 3004, 3004, 2004, 2014, 3014, 1004, 1004, 1004, 3034, 3024,
    2054, 3034, 1004, 2024, 3014, 1004, 2054, 3054, 3054, 3024, 1004, 1004,
    1004, 2084, 3064, 3034, 1004, 2094, 3024, 3024, 2014, 2014, 2014, 2044,
    3024, 1004, 1004, 1004, 2044, 3024, 2064, 3034, 1004, 2094, 3024, 3024,
    2014, 2014, 2014, 2044, 3024, 1004, 2044, 3034, 2024, 3014, 2024, 2094,
    3014, 2014, 2014, 2014, 2004, 2004, 2004, 2004, 2014, 3014, 1004, 1004,
    3014, 2034, 3014, 2044, 3024, 1004, 2044, 3034, 2024, 3014, 2014, 2044,
    3024, 1004, 2044, 3034, 2024, 3014, 2024, 2094, 3014, 2014, 2014, 2014,
    2004, 2004, 2004, 2004, 2014, 3014, 1004, 2044, 3044, 3024, 3024, 2094,
    3014, 2014, 2014, 2014, 2004, 2004, 2014, 2024, 2024, 3014, 2014, 2014,
    2004, 2004, 2004, 2004, 2004, 2004, 2004, 2004, 2064, 3054, 3004, 3004,
    2014, 2014, 3004, 1004, 1004, 1004, 3014, 3014, 2014, 3014, 1004, 2044,
    3044, 3024, 3004, 2044, 3024, 1004, 2044, 3034, 2024, 3014, 2024, 2094,
    3014, 2014, 2014, 2014, 2004, 2004, 2004, 2004, 2014, 3014, 1004, 2044,
    3044, 3024, 3024, 2094, 3014, 2014, 2014, 2014, 2004, 2004, 2014, 2024,
    2024, 3014, 2014, 2014, 2004, 2004, 2004, 2004, 2004, 2004, 2004, 2004,
    2064, 3054, 3004, 3004, 2004, 2014, 3004, 1004, 2054, 3054, 3044, 3034,
    2024, 3014, 2014, 2014, 2004, 2004, 2014, 2024, 2024, 3014, 2014, 2014,
    2004, 2004, 2004, 2004, 2004, 2004, 2004, 2004, 2064, 3054, 3004, 3004,
    2004, 2084, 3014, 2014, 2004, 2004, 2004, 2004, 2004, 2004, 2004, 2004,
    2014, 3004, 3074, 2004, 2004, 2014, 3004, 2004, 2004, 2004, 1034, 3064,
    2004, 2004, 2004, 3004, 1034, 3004, 1034, 3064, 2004, 2014, 2014, 3004,
    1004, 1002 >>

PlayKey(code) ==
    CASE code \div 1000 = 1 -> "ArrowLeft"
      [] code \div 1000 = 2 -> "ArrowRight"
      [] code \div 1000 = 3 -> "ArrowUp"
      [] code \div 1000 = 4 -> "ArrowDown"

PlayPick(code) == (code % 1000) \div 10

PlayTile(code) == code % 10

InitPlay ==
    /\ boardSize = DefaultSize
    /\ board = initBoard(boardSize, 0, 4, 0, 4).board
    /\ score = 0
    /\ stored = NoItem
    /\ storage = "works"
    /\ highScore = loadHighScore(stored, storage)
    /\ loaded = highScore
    /\ best = 0
    /\ isGameOver = FALSE
    /\ hasWon = FALSE
    /\ last = [op |-> "init", key |-> "none", outcome |-> "none"]
    /\ committed = 0
    /\ moves = 0
    /\ restarts = 0
    /\ resizes = 0
    /\ tape = 1
    /\ listener = [board |-> board, isGameOver |-> isGameOver]
    /\ spawned = TileSum(board)
    /\ call = NoCall

\* the next input of the recorded play, with the draws it records
Replay ==
    /\ tape \in 1..Len(RecordedPlay)
    /\ LET key == PlayKey(RecordedPlay[tape])
       IN  /\ handleMove(key, PlayPick(RecordedPlay[tape]), PlayTile(RecordedPlay[tape]))
           /\ spawned' = IF board' = board THEN spawned
                          ELSE spawned + PlayTile(RecordedPlay[tape])
           /\ last' = [op |-> "move", key |-> key,
                       outcome |-> IF isGameOver THEN "ignored"
                                   ELSE IF board' = board THEN "noop" ELSE "committed"]
           /\ committed' = IF board' = board THEN committed
                           ELSE committed + moveFunc(key, board).score
    /\ tape' = tape + 1
    /\ best' = IF score' > best THEN score' ELSE best
    /\ UNCHANGED <<boardSize, storage, loaded, moves, restarts, resizes, call>>

\* any input once the recorded play has been followed to its end: inputs are explored
\* as long as they commit no more than MaxSteps moves, and always once the game is over
FreeKeyDown(key) ==
    /\ tape > Len(RecordedPlay)
    /\ restarts = 0
    /\ moves < MaxSteps \/ ~Commits(key)
    /\ KeyDown(key)
    /\ UNCHANGED <<restarts, resizes, tape, call>>

\* a restart once the recorded play has been followed to its end
FreeRestart ==
    /\ tape > Len(RecordedPlay)
    /\ restarts < MaxRestarts
    /\ Restart
    /\ UNCHANGED <<resizes, tape, call>>

NextPlay ==
    \/ Replay
    \/ \E key \in Directions : FreeKeyDown(key)
    \/ FreeRestart

SpecPlay == InitPlay /\ [][NextPlay]_vars

-----------------------------------------------------------------------------
(* The App: the recorded play, then inputs and size changes.  Size changes *)
(* are explored at the start of a session and once the game is over, and   *)
(* after a size change the first move of the new session, on boards        *)
(* smaller than the default.                                               *)

\* accepted size changes in one run
MaxResizes == 1

\* the sizes asked for: below the range, its lower end, the default, above the range
SizeRequests == {2, 3, DefaultSize, 9}

AppKeyDown(key) ==
    /\ resizes = 0 \/ (moves = 0 /\ boardSize < DefaultSize)
    /\ FreeKeyDown(key)

AppSizeChange(newSize) ==
    /\ tape > Len(RecordedPlay)
    /\ restarts = 0
    /\ resizes < MaxResizes
    /\ moves = 0 \/ isGameOver
    /\ SizeChange(newSize)
    /\ UNCHANGED <<restarts, tape, call>>

NextApp ==
    \/ Replay
    \/ \E key \in Directions : AppKeyDown(key)
    \/ \E newSize \in SizeRequests : AppSizeChange(newSize)

SpecApp == InitPlay /\ [][NextApp]_vars

-----------------------------------------------------------------------------
(* The hook mounted with any small number as its board size, nothing       *)
(* stored.                                                                 *)

\* the sizes the hook is mounted with
MountSizes == 0..3

\* moves committed after the mount
MaxMountMoves == 1

InitMount ==
    /\ boardSize \in MountSizes
    /\ board \in freshBoards[boardSize]
    /\ score = 0
    /\ stored = NoItem
    /\ storage = "works"
    /\ highScore = loadHighScore(stored, storage)
    /\ loaded = highScore
    /\ best = 0
    /\ isGameOver = FALSE
    /\ hasWon = FALSE
    /\ last = [op |-> "init", key |-> "none", outcome |-> "none"]
    /\ committed = 0
    /\ moves = 0
    /\ restarts = 0
    /\ resizes = 0
    /\ tape = 0
    /\ listener = [board |-> board, isGameOver |-> isGameOver]
    /\ spawned = TileSum(board)
    /\ call = NoCall

NextMount ==
    \E key \in Directions :
       /\ moves < MaxMountMoves \/ ~Commits(key)
       /\ KeyDown(key)
       /\ UNCHANGED <<restarts, resizes, tape, call>>

SpecMount == InitMount /\ [][NextMount]_vars

-----------------------------------------------------------------------------
(* The hook mounted in a browser whose storage holds any of a few items    *)
(* and works, is full or is denied.  The initial state is the state once   *)
(* the mount effects (lines 22-34 and 56-58) have run.                     *)

\* what localStorage may hold under 'highScore2048' when the hook mounts: nothing, the
\* empty string, "4", "12abc", "-5", "abc"
StoredItems ==
    {NoItem, Item(<<>>), Item(<<"4">>), Item(<<"1", "2", "a", "b", "c">>),
     Item(<<"-", "5">>), Item(<<"a", "b", "c">>)}

\* the mounted hook, for a set of items and a set of storage behaviours
Mounted(items, modes) ==
    /\ boardSize = 2
    /\ board \in freshBoards[boardSize]
    /\ score = 0
    /\ stored \in items
    /\ storage \in modes
    /\ highScore = loadHighScore(stored, storage)
    /\ loaded = highScore
    /\ best = 0
    /\ isGameOver = FALSE
    /\ hasWon = FALSE
    /\ last = [op |-> "init", key |-> "none", outcome |-> "none"]
    /\ committed = 0
    /\ moves = 0
    /\ restarts = 0
    /\ resizes = 0
    /\ tape = 0
    /\ listener = [board |-> board, isGameOver |-> isGameOver]
    /\ spawned = TileSum(board)
    /\ call = NoCall

\* moves committed after the mount
MaxLoadMoves == 1

InitLoad == Mounted(StoredItems, StorageModes)

NextLoad ==
    \E key \in Directions :
       /\ moves < MaxLoadMoves \/ ~Commits(key)
       /\ KeyDown(key)
       /\ UNCHANGED <<restarts, resizes, tape, call>>

SpecLoad == InitLoad /\ [][NextLoad]_vars

\* Sessions with a high score to beat: nothing stored, or "4".
SessionItems == {NoItem, Item(<<"4">>)}

\* moves committed in one session
MaxStoreMoves == 1

InitStore == Mounted(SessionItems, StorageModes)

NextStore ==
    \/ \E key \in Directions :
          /\ moves < MaxStoreMoves \/ ~Commits(key)
          /\ KeyDown(key)
          /\ UNCHANGED <<restarts, resizes, tape, call>>
    \/ restarts < MaxRestarts /\ Restart /\ UNCHANGED <<resizes, tape, call>>

SpecStore == InitStore /\ [][NextStore]_vars

-----------------------------------------------------------------------------
(* Enumerated inputs.                                                      *)

Tiles == {Pow2(e) : e \in 1..MaxExp}

Cells == Tiles \cup {0}

Lines == UNION {[1..n -> Cells] : n \in 0..MaxLen}

-----------------------------------------------------------------------------
(* The hook's state is not used while an engine function is exercised.     *)

HookIdle ==
    /\ boardSize = 0
    /\ board = <<>>
    /\ score = 0
    /\ highScore = 0
    /\ isGameOver = FALSE
    /\ hasWon = FALSE
    /\ listener = [board |-> <<>>, isGameOver |-> FALSE]
    /\ stored = NoItem
    /\ storage = "works"
    /\ loaded = 0
    /\ best = 0
    /\ last = [op |-> "none"]
    /\ committed = 0
    /\ spawned = 0
    /\ moves = 0
    /\ restarts = 0
    /\ resizes = 0
    /\ tape = 0

InitLine ==
    /\ HookIdle
    /\ \E l \in Lines : call = [fn |-> "input", arg |-> l]

CallSlideAndMerge ==
    /\ call.fn = "input"
    /\ call' = [fn |-> "slideAndMerge", arg |-> call.arg, out |-> slideAndMerge(call.arg)]
    /\ UNCHANGED hookVars

NextLine == CallSlideAndMerge

SpecLine == InitLine /\ [][NextLine]_vars

-----------------------------------------------------------------------------
(* The board functions applied to every enumerated board.                  *)

\* tiles of the boards given to the moves and to isGameOver are 2^1 .. 2^MaxBoardExp
MaxBoardExp == 2
\* tiles of the boards given to addRandomTile are 2^1 .. 2^MaxSpawnExp
MaxSpawnExp == 1

BoardSizes == 1..3

BoardsOver(cells) == UNION {[1..n -> [1..n -> cells]] : n \in BoardSizes}

Boards == BoardsOver({Pow2(e) : e \in 1..MaxBoardExp} \cup {0})

SpawnBoards == BoardsOver({Pow2(e) : e \in 1..MaxSpawnExp} \cup {0})

\* the board of the README's and the tests' example move
ExampleBoard == <<(<<2, 2, 0, 0>>), (<<0, 0, 0, 0>>), (<<0, 0, 0, 0>>), (<<0, 0, 0, 0>>)>>

InitMoves ==
    /\ HookIdle
    /\ \E b \in Boards \cup {ExampleBoard} : call = [fn |-> "input", arg |-> b]

CallMove(key) ==
    /\ call.fn = "input"
    /\ call' = [fn |-> "move", key |-> key, arg |-> call.arg, out |-> moveFunc(key, call.arg)]
    /\ UNCHANGED hookVars

NextMoves == \E key \in Directions : CallMove(key)

SpecMoves == InitMoves /\ [][NextMoves]_vars

InitSpawn ==
    /\ HookIdle
    /\ \E b \in SpawnBoards : call = [fn |-> "input", arg |-> b]

CallAddRandomTile ==
    /\ call.fn = "input"
    /\ \E pick \in Picks(Len(getEmptyCells(call.arg))), tile \in SpawnTiles :
          call' = [fn |-> "addRandomTile", arg |-> call.arg, out |-> addRandomTile(call.arg, pick, tile)]
    /\ UNCHANGED hookVars

NextSpawn == CallAddRandomTile

SpecSpawn == InitSpawn /\ [][NextSpawn]_vars

InitQuery ==
    /\ HookIdle
    /\ \E b \in Boards : call = [fn |-> "input", arg |-> b]

CallIsGameOver ==
    /\ call.fn = "input"
    /\ call' = [fn |-> "isGameOver", arg |-> call.arg, out |-> checkGameOver(call.arg)]
    /\ UNCHANGED hookVars

NextQuery == CallIsGameOver

SpecQuery == InitQuery /\ [][NextQuery]_vars

\* isGameOver and the four moves applied to the same board
InitLegal ==
    /\ HookIdle
    /\ \E b \in Boards : call = [fn |-> "input", arg |-> b]

CallIsGameOverAndMoves ==
    /\ call.fn = "input"
    /\ call' = [fn |-> "legal", arg |-> call.arg,
                over |-> checkGameOver(call.arg),
                moved |-> [key \in Directions |-> moveFunc(key, call.arg).newBoard]]
    /\ UNCHANGED hookVars

NextLegal == CallIsGameOverAndMoves

SpecLegal == InitLegal /\ [][NextLegal]_vars

\* the two rotations applied to the same grid, alone and one after the other
InitRotate ==
    /\ HookIdle
    /\ \E b \in Boards \cup {ExampleBoard} : call = [fn |-> "input", arg |-> b]

CallRotate ==
    /\ call.fn = "input"
    /\ call' = [fn |-> "rotate", arg |-> call.arg,
                right |-> rotateRight(call.arg),
                left |-> rotateLeft(call.arg),
                leftOfRight |-> rotateLeft(rotateRight(call.arg)),
                rightOfLeft |-> rotateRight(rotateLeft(call.arg))]
    /\ UNCHANGED hookVars

NextRotate == CallRotate

SpecRotate == InitRotate /\ [][NextRotate]_vars

\* tiles of the boards given to hasWon are 2^10 .. 2^MaxWinExp
MaxWinExp == 12

WinCells == {Pow2(e) : e \in 10..MaxWinExp} \cup {0}

\* every board of up to 2 x 2 cells of these tiles, and the empty board of the default size
WinBoards ==
    UNION {[1..n -> [1..n -> WinCells]] : n \in 0..2} \cup {createEmptyBoard(DefaultSize)}

InitWin ==
    /\ HookIdle
    /\ \E b \in WinBoards : call = [fn |-> "input", arg |-> b]

CallHasWon ==
    /\ call.fn = "input"
    /\ call' = [fn |-> "hasWon", arg |-> call.arg, out |-> checkWin(call.arg)]
    /\ UNCHANGED hookVars

NextWin == CallHasWon

SpecWin == InitWin /\ [][NextWin]_vars

-----------------------------------------------------------------------------
(* What the claims speak of, stated on boards and lines directly.          *)

HasEmptyCell(b) == \E r \in 1..Len(b) : \E c \in 1..Len(b[r]) : b[r][c] = 0

Coords(b) == {rc \in (1..Len(b)) \X (1..Len(b)) : TRUE}

Adjacent(p, q) ==
    \/ p[1] = q[1] /\ (p[2] - q[2] = 1 \/ q[2] - p[2] = 1)
    \/ p[2] = q[2] /\ (p[1] - q[1] = 1 \/ q[1] - p[1] = 1)

HasAdjacentEqual(b) ==
    \E p \in Coords(b), q \in Coords(b) : Adjacent(p, q) /\ b[p[1]][p[2]] = b[q[1]][q[2]]

HasLegalMove(b) == HasEmptyCell(b) \/ HasAdjacentEqual(b)

HasTile(b, v) == \E p \in Coords(b) : b[p[1]][p[2]] = v

\* the cells in which two boards of one size differ
Changed(a, b) == {p \in Coords(a) : a[p[1]][p[2]] # b[p[1]][p[2]]}

\* b is a with one tile, a 2 or a 4, put on a cell that was empty
OneTileSpawned(a, b) ==
    /\ Len(a) = Len(b)
    /\ Cardinality(Changed(a, b)) = 1
    /\ \A p \in Changed(a, b) : a[p[1]][p[2]] = 0 /\ b[p[1]][p[2]] \in {2, 4}

\* the reference reducer: drop the zeros, merge each element with an equal right
\* neighbour once, scanning from the left, pad with zeros
Compacted(line) == SelectSeq(line, LAMBDA x : x # 0)

RECURSIVE MergedOnce(_)
MergedOnce(s) ==
    IF Len(s) = 0 THEN [tiles |-> <<>>, delta |-> 0]
    ELSE IF Len(s) >= 2 /\ s[1] = s[2]
         THEN LET rest == MergedOnce(SubSeq(s, 3, Len(s)))
              IN  [tiles |-> <<2 * s[1]>> \o rest.tiles, delta |-> 2 * s[1] + rest.delta]
         ELSE LET rest == MergedOnce(Tail(s))
              IN  [tiles |-> <<s[1]>> \o rest.tiles, delta |-> rest.delta]

ReduceLine(line) ==
    LET m == MergedOnce(Compacted(line))
    IN  [newLine |-> m.tiles \o [i \in 1..(Len(line) - Len(m.tiles)) |-> 0],
         scoreDelta |-> m.delta]

\* the cell of an N x N board that is the i-th cell of line k read from the edge the
\* move points to
EdgeCell(key, N, k, i) ==
    CASE key = "ArrowLeft" -> <<k, i>>
      [] key = "ArrowRight" -> <<k, N + 1 - i>>
      [] key = "ArrowUp" -> <<i, k>>
      [] key = "ArrowDown" -> <<N + 1 - i, k>>

EdgeLine(key, b, k) ==
    [i \in 1..Len(b) |-> LET p == EdgeCell(key, Len(b), k, i) IN b[p[1]][p[2]]]

RECURSIVE ReducedLines(_, _, _)
\* the reference reducer's results for the lines k, k+1, ... of a board
ReducedLines(key, b, k) ==
    IF k > Len(b) THEN <<>>
    ELSE <<ReduceLine(EdgeLine(key, b, k))>> \o ReducedLines(key, b, k + 1)

RECURSIVE SumOfDeltas(_, _)
SumOfDeltas(reduced, k) ==
    IF k > Len(reduced) THEN 0 ELSE reduced[k].scoreDelta + SumOfDeltas(reduced, k + 1)

ProgramVars == <<board, score, highScore, isGameOver, hasWon>>

Max(a, b) == IF a >= b THEN a ELSE b

\* a size x size board
IsBoardOfSize(b, size) == Len(b) = size /\ \A r \in 1..size : Len(b[r]) = size

\* the cells of a board that hold a tile
TileCells(b) == {p \in Coords(b) : b[p[1]][p[2]] # 0}

\* a size x size board with two tiles, each a 2 or a 4, and nothing else
IsFreshBoard(b, size) ==
    /\ IsBoardOfSize(b, size)
    /\ Cardinality(TileCells(b)) = 2
    /\ \A p \in TileCells(b) : b[p[1]][p[2]] \in {2, 4}

\* a string of decimal digits and nothing else
IsNumeral(string) == string # <<>> /\ \A i \in 1..Len(string) : IsDigit(string[i])

\* the number a stored item stands for, 0 for an item that stands for none
ReadBack(item) ==
    IF item # NoItem /\ IsNumeral(item[1]) THEN parseInt(item[1]).value ELSE 0

-----------------------------------------------------------------------------
(* The claims.                                                             *)

\* C1: reaching 2048 only marks the win: after a committed move whose board shows a
\* 2048 tile and still has a legal move, hasWon is true and isGameOver is false.
C1_WinDoesNotEndTheGame ==
    (last.outcome = "committed" /\ HasTile(board, 2048) /\ HasLegalMove(board))
        => (hasWon /\ ~isGameOver)

\* C2: an input whose move returns the current board cell for cell, handled while the
\* game is not over, changes none of board, score, highScore, isGameOver, hasWon.
C2_NoOpInputChangesNothing ==
    [][(last'.op = "move" /\ ~isGameOver /\ moveFunc(last'.key, board).newBoard = board)
          => UNCHANGED ProgramVars]_vars

C2_Witness ==
    /\ last.op = "move" /\ last.outcome = "noop"
    /\ ~isGameOver
    /\ moveFunc(last.key, board).newBoard = board
    /\ score > 0

\* C3: once isGameOver is true, a direction input leaves board, score, hasWon and
\* isGameOver as they are, and only a restart (or a change of size) clears isGameOver.
C3_GameOverIsAbsorbing ==
    [][isGameOver =>
          /\ (last'.op = "move" => UNCHANGED <<board, score, hasWon, isGameOver>>)
          /\ (~isGameOver' => last'.op \in {"restart", "resize"})]_vars

C3_Witness ==
    /\ isGameOver
    /\ last.op = "move" /\ last.outcome = "ignored"
    /\ \E key \in Directions : moveFunc(key, board).newBoard # board

\* C4: a board with no empty cell and no two adjacent equal cells is never shown with
\* isGameOver false.
C4_NoStuckState == ~HasLegalMove(board) => isGameOver

C4_Witness ==
    /\ ~HasLegalMove(board)
    /\ isGameOver
    /\ last.outcome = "committed"

\* C5: the score is the sum of the deltas of the moves whose board was committed since
\* the last (re)start.
C5_ScoreIsSumOfCommittedDeltas == score = committed

C5_Witness ==
    /\ score = committed
    /\ score >= 12
    /\ last.outcome \in {"noop", "ignored"}

\* C6: slideAndMerge returns what the reference reducer returns, and on the four
\* lines of the tests what the tests expect.
C6_SlideAndMergeIsTheReducer ==
    call.fn = "slideAndMerge" =>
        /\ call.out.newRow = ReduceLine(call.arg).newLine
        /\ call.out.score = ReduceLine(call.arg).scoreDelta
        /\ call.arg = <<2, 2, 2, 0>> => call.out = [newRow |-> <<4, 2, 0, 0>>, score |-> 4]
        /\ call.arg = <<2, 2, 2, 2>> => call.out = [newRow |-> <<4, 4, 0, 0>>, score |-> 8]
        /\ call.arg = <<2, 2, 4, 4>> => call.out = [newRow |-> <<4, 8, 0, 0>>, score |-> 12]
        /\ call.arg = <<0, 0, 0, 0>> => call.out = [newRow |-> <<0, 0, 0, 0>>, score |-> 0]

C6_Witness ==
    /\ call.fn = "slideAndMerge"
    /\ call.arg = <<2, 2, 2, 0>>
    /\ call.out.newRow = <<4, 2, 0, 0>>

\* C7: a move returns, line by line, the reference reducer's result for each row or
\* column read from the edge the move points to, and the sum of the lines' deltas.
C7_MoveReducesEachLineFromItsEdge ==
    call.fn = "move" =>
        /\ Len(call.out.newBoard) = Len(call.arg)
        /\ LET reduced == ReducedLines(call.key, call.arg, 1)
           IN  /\ \A k \in 1..Len(call.arg) :
                     EdgeLine(call.key, call.out.newBoard, k) = reduced[k].newLine
               /\ call.out.score = SumOfDeltas(reduced, 1)
        /\ (call.key = "ArrowLeft" /\ call.arg = ExampleBoard) =>
              call.out = [newBoard |-> [ExampleBoard EXCEPT ![1] = <<4, 0, 0, 0>>], score |-> 4]

C7_Witness ==
    /\ call.fn = "move"
    /\ call.key = "ArrowDown"
    /\ call.arg = <<(<<2, 0, 4>>), (<<2, 4, 0>>), (<<2, 4, 2>>)>>
    /\ call.out = [newBoard |-> <<(<<0, 0, 0>>), (<<2, 0, 4>>), (<<4, 8, 2>>)>>, score |-> 12]

\* C8: a committed move shows the move's result board with exactly one more tile, a 2
\* or a 4 on a cell the result board had empty.
C8_CommittedMoveSpawnsOneTile ==
    [][(last'.op = "move" /\ board' # board) =>
          /\ HasEmptyCell(moveFunc(last'.key, board).newBoard)
          /\ OneTileSpawned(moveFunc(last'.key, board).newBoard, board')]_vars

C8_Witness ==
    /\ last.op = "move" /\ last.outcome = "committed"
    /\ moves >= 2
    /\ ~HasEmptyCell(board)

\* C9: addRandomTile returns a full board as it is with no coordinate, and any other
\* board with one tile, a 2 or a 4, put on an empty cell, whose coordinate it returns.
C9_AddRandomTileSpawnsOneTile ==
    call.fn = "addRandomTile" =>
        IF HasEmptyCell(call.arg)
        THEN /\ OneTileSpawned(call.arg, call.out.newBoard)
             /\ Changed(call.arg, call.out.newBoard) = {call.out.newTileCoords}
        ELSE /\ call.out.newBoard = call.arg
             /\ call.out.newTileCoords = NoCoords

C9_Witness ==
    /\ call.fn = "addRandomTile"
    /\ call.arg = <<(<<2, 0, 2>>), (<<2, 2, 0>>), (<<0, 2, 2>>)>>
    /\ call.out.newTileCoords = <<2, 3>>
    /\ call.out.newBoard[2][3] = 4

\* C10: isGameOver is true exactly of the boards with no empty cell and no two adjacent
\* equal cells.
C10_IsGameOverIffNoLegalMove ==
    call.fn = "isGameOver" =>
        /\ call.out = (~HasEmptyCell(call.arg) /\ ~HasAdjacentEqual(call.arg))
        /\ HasEmptyCell(call.arg) => call.out = FALSE

C10_Witness ==
    /\ call.fn = "isGameOver"
    /\ call.arg = <<(<<2, 4, 2>>), (<<4, 2, 4>>), (<<2, 4, 2>>)>>
    /\ call.out = TRUE

\* C11 as stated: a board on which isGameOver is false has a move that changes it, and
\* a board on which isGameOver is true is returned unchanged by all four moves.
C11_LegalMoveIffNotTerminal ==
    call.fn = "legal" =>
        /\ ~call.over => \E key \in Directions : call.moved[key] # call.arg
        /\ call.over => \A key \in Directions : call.moved[key] = call.arg

\* C11, amended: for every board that holds at least one tile, isGameOver is false
\* exactly when at least one of the four moves returns a different board; on the board
\* with no tile isGameOver is false and no move changes anything.
C11_LegalMoveIffNotTerminalWithATile ==
    call.fn = "legal" =>
        LET someTile == \E p \in Coords(call.arg) : call.arg[p[1]][p[2]] # 0
            someMove == \E key \in Directions : call.moved[key] # call.arg
        IN  /\ someTile => (call.over = ~someMove)
            /\ ~someTile => (~someMove /\ (call.over = (Len(call.arg) = 0)))

C11_Witness ==
    /\ call.fn = "legal"
    /\ call.arg = <<(<<2, 4, 2>>), (<<4, 2, 4>>), (<<2, 4, 4>>)>>
    /\ ~call.over
    /\ call.moved["ArrowUp"] = <<(<<2, 4, 2>>), (<<4, 2, 8>>), (<<2, 4, 0>>)>>
    /\ call.moved["ArrowLeft"] = <<(<<2, 4, 2>>), (<<4, 2, 4>>), (<<2, 8, 0>>)>>

\* C19: rotateLeft after rotateRight, and rotateRight after rotateLeft, return the grid
\* they were given, for every square grid.
C19_RotationsAreInverses ==
    call.fn = "rotate" =>
        /\ call.leftOfRight = call.arg
        /\ call.rightOfLeft = call.arg

C19_Witness ==
    /\ call.fn = "rotate"
    /\ call.arg = <<(<<2, 4, 0>>), (<<0, 2, 0>>), (<<4, 4, 2>>)>>
    /\ call.right = <<(<<4, 0, 2>>), (<<4, 2, 4>>), (<<2, 0, 0>>)>>
    /\ call.left = <<(<<0, 0, 2>>), (<<4, 2, 4>>), (<<2, 0, 4>>)>>
    /\ call.leftOfRight = call.arg

\* C20: hasWon is true exactly of the boards with a cell equal to 2048: false of the
\* empty board and of boards whose tiles are all other values, such as 1024 and 4096.
C20_HasWonIffSome2048 ==
    call.fn = "hasWon" =>
        /\ call.out = HasTile(call.arg, 2048)
        /\ (\A p \in Coords(call.arg) : call.arg[p[1]][p[2]] \in {0, 1024, 4096}) => ~call.out

C20_Witness ==
    /\ call.fn = "hasWon"
    /\ call.arg = <<(<<1024, 4096>>), (<<0, 4096>>)>>
    /\ call.out = FALSE

C15_BadStoredValueStartsAtZero ==
    (last.op = "init" /\ (getItemThrows(storage) \/ stored = NoItem \/ ~IsNumeral(stored[1])))
        => (highScore = 0 /\ ~isGameOver)

\* C16: with working storage every raise of highScore stores String(highScore), so the
\* stored value equals highScore once raised and never decreases; when the write throws
\* the item stays, and the move is processed as it is with working storage: the board
\* and the score change by the move.
C16_RaiseIsStoredAndThrowIsHarmless ==
    [][/\ (storage = "works" /\ highScore' > loaded')
              => (stored' = Item(String(highScore')) /\ ReadBack(stored') = highScore')
       /\ storage = "works" => ReadBack(stored') >= ReadBack(stored)
       /\ storage # "works" => stored' = stored
       /\ (storage # "works" /\ last'.op = "move" /\ ~isGameOver
             /\ moveFunc(last'.key, board).newBoard # board)
              => /\ board' # board
                 /\ score' = score + moveFunc(last'.key, board).score
                 /\ highScore' = Max(highScore, score')
                 /\ isGameOver' = (checkWin(board') \/ ~HasLegalMove(board'))]_vars

C16_Witness ==
    /\ storage = "full"
    /\ stored = Item(<<"4">>)
    /\ highScore = 8
    /\ restarts = 1
    /\ last.op = "move" /\ last.outcome = "committed"

\* C13: restartGame, in any state, yields a fresh two-tile board of the current size,
\* score 0, isGameOver false and hasWon false, and leaves highScore and the stored high
\* score as they are.
C13_RestartGivesAFreshSession ==
    [][last'.op = "restart" =>
          /\ boardSize' = boardSize
          /\ IsFreshBoard(board', boardSize)
          /\ score' = 0
          /\ ~isGameOver' /\ ~hasWon'
          /\ highScore' = highScore
          /\ stored' = stored]_vars

C13_Witness ==
    /\ last.op = "restart"
    /\ highScore = 18448
    /\ stored = Item(<<"1", "8", "4", "4", "8">>)
    /\ ~isGameOver

\* C12: at session start, for every N >= 2, the board is N x N with exactly two tiles
\* at distinct cells, each a 2 or a 4, score is 0, isGameOver and hasWon are false.
C12_SessionStartsPlaying ==
    (last.op = "init" /\ boardSize >= 2) =>
        /\ IsFreshBoard(board, boardSize)
        /\ score = 0
        /\ ~isGameOver /\ ~hasWon

C12_Witness ==
    /\ last.op = "init"
    /\ boardSize = 3
    /\ board = <<(<<0, 0, 4>>), (<<0, 0, 0>>), (<<2, 0, 0>>)>>

\* C17: session initialization rejects N < 2: no session state exists with N = 0 or
\* N = 1.
C17_SmallSizeIsRejected == boardSize >= 2

\* C18: boardSize is always within 3..8 and the board is boardSize x boardSize; a request
\* outside 3..8 leaves boardSize and the game state as they are, a change to another
\* size within 3..8 starts a fresh session of that size, and nothing else changes
\* boardSize.
C18_SizeStaysInRangeAndResets ==
    /\ [](boardSize \in 3..8 /\ IsBoardOfSize(board, boardSize))
    /\ [][/\ boardSize' # boardSize => last'.op = "resize"
          /\ (last'.op = "resize" /\ last'.size \notin 3..8)
                 => UNCHANGED <<boardSize, board, score, highScore, isGameOver, hasWon>>
          /\ (last'.op = "resize" /\ last'.size \in 3..8 /\ last'.size # boardSize)
                 => /\ boardSize' = last'.size
                    /\ IsFreshBoard(board', boardSize')
                    /\ score' = 0
                    /\ ~isGameOver' /\ ~hasWon']_vars

C18_Witness ==
    /\ boardSize = 3
    /\ resizes = 1
    /\ highScore = 18448
    /\ last.op = "move" /\ last.outcome = "committed"
    /\ IsBoardOfSize(board, 3)

-----------------------------------------------------------------------------
(* Lines with a single tile.                                               *)

NonZeroCount(line) == Cardinality({i \in 1..Len(line) : line[i] # 0})

\* C21 as stated: for every line that contains exactly one non-zero element,
\* slideAndMerge returns the line unchanged (the same element at the same position)
\* with score delta 0.
C21_SingleTileLineIsUnchanged ==
    (call.fn = "slideAndMerge" /\ NonZeroCount(call.arg) = 1) =>
        /\ call.out.newRow = call.arg
        /\ call.out.score = 0

\* C21: for every line that contains exactly one non-zero element, slideAndMerge
\* returns a line of the same length with that element at the first position and
\* zeros after it, with score delta 0; the line is returned unchanged exactly when
\* the element was already at the first position.
C21_SingleTileSlidesToTheFront ==
    (call.fn = "slideAndMerge" /\ NonZeroCount(call.arg) = 1) =>
        LET p == CHOOSE i \in 1..Len(call.arg) : call.arg[i] # 0
        IN  /\ Len(call.out.newRow) = Len(call.arg)
            /\ call.out.newRow[1] = call.arg[p]
            /\ \A i \in 2..Len(call.arg) : call.out.newRow[i] = 0
            /\ call.out.score = 0
            /\ (call.out.newRow = call.arg) <=> (p = 1)

C21_Witness ==
    /\ call.fn = "slideAndMerge"
    /\ call.arg = <<0, 0, 4>>
    /\ call.out = [newRow |-> <<4, 0, 0>>, score |-> 0]

-----------------------------------------------------------------------------
(* The shape of the session's board.                                       *)

RECURSIVE IsPowerOfTwo(_)
\* 2, 4, 8, ...
IsPowerOfTwo(v) == v = 2 \/ (v > 2 /\ v % 2 = 0 /\ IsPowerOfTwo(v \div 2))

\* C22: every board of a session of size N, after initialization, direction inputs
\* and restarts, is an N x N matrix whose cells are each 0 or a power of two >= 2,
\* with at least one non-empty cell.
C22_BoardIsSquareOfPowersOfTwo ==
    /\ IsBoardOfSize(board, boardSize)
    /\ \A r \in 1..Len(board) : \A c \in 1..Len(board[r]) :
           board[r][c] = 0 \/ IsPowerOfTwo(board[r][c])
    /\ \E r \in 1..Len(board) : \E c \in 1..Len(board[r]) : board[r][c] # 0

C22_Witness ==
    /\ IsBoardOfSize(board, 4)
    /\ HasTile(board, 1024) /\ HasTile(board, 8) /\ HasTile(board, 2)
    /\ last.op = "move" /\ last.outcome = "committed"

-----------------------------------------------------------------------------
(* src/utils/board.ts on a heap of arrays.                                 *)
(*                                                                         *)
(* A board of the program is an array of references to row arrays.  Here   *)
(* a heap is the sequence of the arrays allocated so far and a reference   *)
(* is an index into it; a row array holds cell values and a board array    *)
(* holds references to its rows.  Every function takes the heap and        *)
(* returns the heap it leaves and the reference it returns.                *)

\* a new array: [] , Array(n), new Array(n), the result of map
alloc(heap, array) == [heap |-> Append(heap, array), ref |-> Len(heap) + 1]

\* a callback that returns the row it is given (row => row)
spread_sameArray(heap, ref) == [heap |-> heap, ref |-> ref]

\* [...row] of lines 25, 128, 130
spread(heap, ref) == alloc(heap, heap[ref])

\* Array.prototype.reverse: reverses the array in place and returns it
reverseInPlace(heap, ref) == [heap |-> [heap EXCEPT ![ref] = reverse(heap[ref])], ref |-> ref]

\* row => [...row].reverse() of lines 128 and 130
spreadReverse(heap, ref) ==
    LET copy == spread(heap, ref) IN reverseInPlace(copy.heap, copy.ref)

\* lines 56-84: row is only read; newRow is the array of line 65
slideAndMergeOnHeap(heap, ref) == alloc(heap, slideAndMerge(heap[ref]).newRow)

\* the callbacks given to map in lines 25, 113-117, 128, 130
callback(kind, heap, ref) ==
    CASE kind = "spread" -> spread(heap, ref)
      [] kind = "spreadReverse" -> spreadReverse(heap, ref)
      [] kind = "slideAndMerge" -> slideAndMergeOnHeap(heap, ref)

\* Array.prototype.map from element i on: the callback's results go to a new array
RECURSIVE mapFrom(_, _, _, _, _)
mapFrom(kind, heap, array, i, results) ==
    IF i > Len(array) THEN alloc(heap, results)
    ELSE LET one == callback(kind, heap, array[i])
         IN  mapFrom(kind, one.heap, array, i + 1, Append(results, one.ref))

map(kind, heap, boardRef) == mapFrom(kind, heap, heap[boardRef], 1, <<>>)

\* the board value a reference denotes
deref(heap, boardRef) == [r \in 1..Len(heap[boardRef]) |-> heap[heap[boardRef][r]]]

\* lines 89 and 101: Array.from({ length: size }, () => new Array(size)), whose rows
\* the loops of lines 90-94 and 102-106 fill; only cells of newGrid are written
RECURSIVE newGridFrom(_, _, _, _)
newGridFrom(heap, grid, r, rows) ==
    IF r > Len(grid) THEN alloc(heap, rows)
    ELSE LET row == alloc(heap, grid[r])
         IN  newGridFrom(row.heap, grid, r + 1, Append(rows, row.ref))

rotateRightOnHeap(heap, gridRef) == newGridFrom(heap, rotateRight(deref(heap, gridRef)), 1, <<>>)

rotateLeftOnHeap(heap, gridRef) == newGridFrom(heap, rotateLeft(deref(heap, gridRef)), 1, <<>>)

\* lines 111-119
operateOnHeap(heap, boardRef) == map("slideAndMerge", heap, boardRef)

\* lines 121-124
moveLeftOnHeap(heap, boardRef) == operateOnHeap(heap, boardRef)

\* lines 126-132
moveRightOnHeap(heap, boardRef) ==
    LET reversed == map("spreadReverse", heap, boardRef)
        newReversed == operateOnHeap(reversed.heap, reversed.ref)
    IN  map("spreadReverse", newReversed.heap, newReversed.ref)

\* lines 134-139
moveUpOnHeap(heap, boardRef) ==
    LET rotated == rotateLeftOnHeap(heap, boardRef)
        newRotated == operateOnHeap(rotated.heap, rotated.ref)
    IN  rotateRightOnHeap(newRotated.heap, newRotated.ref)

\* lines 141-146
moveDownOnHeap(heap, boardRef) ==
    LET rotated == rotateRightOnHeap(heap, boardRef)
        newRotated == operateOnHeap(rotated.heap, rotated.ref)
    IN  rotateLeftOnHeap(newRotated.heap, newRotated.ref)

moveFuncOnHeap(key, heap, boardRef) ==
    CASE key = "ArrowUp" -> moveUpOnHeap(heap, boardRef)
      [] key = "ArrowDown" -> moveDownOnHeap(heap, boardRef)
      [] key = "ArrowLeft" -> moveLeftOnHeap(heap, boardRef)
      [] key = "ArrowRight" -> moveRightOnHeap(heap, boardRef)

\* lines 24-33, with the draws of lines 30-31 as inputs
addRandomTileOnHeap(heap, boardRef, pick, tile) ==
    LET newBoard == map("spread", heap, boardRef)
        emptyCells == getEmptyCells(deref(newBoard.heap, newBoard.ref))
    IN  IF Len(emptyCells) = 0 THEN newBoard
        ELSE LET r == emptyCells[pick + 1][1]
                 c == emptyCells[pick + 1][2]
                 row == newBoard.heap[newBoard.ref][r]
             IN  [heap |-> [newBoard.heap EXCEPT ![row][c] = tile], ref |-> newBoard.ref]

\* the caller's board b on a heap: its rows at 1 .. Len(b), the board array after them
heapOf(b) == Append(b, [r \in 1..Len(b) |-> r])

InitHeap ==
    /\ HookIdle
    /\ \E b \in SpawnBoards : call = [fn |-> "input", arg |-> b]

CallMoveOnHeap(key) ==
    /\ call.fn = "input"
    /\ LET res == moveFuncOnHeap(key, heapOf(call.arg), Len(call.arg) + 1)
       IN  call' = [fn |-> "onHeap", name |-> key, arg |-> call.arg,
                    argRef |-> Len(call.arg) + 1, before |-> heapOf(call.arg),
                    after |-> res.heap, ret |-> res.ref,
                    out |-> moveFunc(key, call.arg).newBoard]
    /\ UNCHANGED hookVars

CallAddRandomTileOnHeap ==
    /\ call.fn = "input"
    /\ \E pick \in Picks(Len(getEmptyCells(call.arg))), tile \in SpawnTiles :
          LET res == addRandomTileOnHeap(heapOf(call.arg), Len(call.arg) + 1, pick, tile)
          IN  call' = [fn |-> "onHeap", name |-> "addRandomTile", arg |-> call.arg,
                       argRef |-> Len(call.arg) + 1, before |-> heapOf(call.arg),
                       after |-> res.heap, ret |-> res.ref,
                       out |-> addRandomTile(call.arg, pick, tile).newBoard]
    /\ UNCHANGED hookVars

NextHeap ==
    \/ \E key \in Directions : CallMoveOnHeap(key)
    \/ CallAddRandomTileOnHeap

SpecHeap == InitHeap /\ [][NextHeap]_vars

\* the board a function returns on the heap is the board the function returns
OnHeapReturnsTheSameBoard ==
    call.fn = "onHeap" => deref(call.after, call.ret) = call.out

\* the references a board array holds
RowRefs(heap, boardRef) == {heap[boardRef][r] : r \in 1..Len(heap[boardRef])}

\* C23: after moveLeft, moveRight, moveUp, moveDown or addRandomTile returns, the
\* input board and each of its rows hold the same values as before the call, and the
\* returned board is another array that shares no row with the input.
C23_ArgumentIsNotModified ==
    call.fn = "onHeap" =>
        /\ call.after[call.argRef] = call.before[call.argRef]
        /\ \A a \in RowRefs(call.before, call.argRef) : call.after[a] = call.before[a]
        /\ deref(call.after, call.argRef) = call.arg
        /\ call.ret # call.argRef
        /\ RowRefs(call.after, call.ret) \cap RowRefs(call.before, call.argRef) = {}

C23_Witness ==
    /\ call.fn = "onHeap"
    /\ call.name = "ArrowRight"
    /\ call.arg = <<(<<2, 0, 0>>), (<<0, 2, 2>>), (<<0, 0, 0>>)>>
    /\ deref(call.after, call.ret) = <<(<<0, 0, 2>>), (<<0, 0, 4>>), (<<0, 0, 0>>)>>
    /\ deref(call.after, call.argRef) = call.arg

-----------------------------------------------------------------------------
(* The order of the inputs.                                                *)

-----------------------------------------------------------------------------
(* The four moves of one board, each applied once and once more to its     *)
(* own result.                                                             *)

\* a board whose rows merge differently from their two ends
ThreeTwosBoard == <<(<<2, 2, 2, 0>>), (<<0, 0, 0, 0>>), (<<4, 2, 2, 0>>), (<<0, 4, 0, 4>>)>>

\* a board that no move to the left changes
PackedLeftBoard == <<(<<2, 4, 2>>), (<<4, 0, 0>>), (<<2, 0, 0>>)>>

InitFour ==
    /\ HookIdle
    /\ \E b \in SpawnBoards \cup {ExampleBoard, ThreeTwosBoard, PackedLeftBoard} :
          call = [fn |-> "input", arg |-> b]

CallFourMoves ==
    /\ call.fn = "input"
    /\ call' = [fn |-> "moves", arg |-> call.arg,
                out |-> [key \in Directions |-> moveFunc(key, call.arg)],
                again |-> [key \in Directions |->
                              moveFunc(key, moveFunc(key, call.arg).newBoard)]]
    /\ UNCHANGED hookVars

NextFour == CallFourMoves

SpecFour == InitFour /\ [][NextFour]_vars

\* C25: for every board B and direction D, if move D returns a board equal to B then
\* its score delta is 0 (a positive score delta implies the board changed), and
\* applying D again to that unchanged result returns it unchanged with delta 0.
C25_NoOpMoveScoresNothing ==
    call.fn = "moves" =>
        \A key \in Directions :
            /\ call.out[key].score > 0 => ~areBoardsEqual(call.out[key].newBoard, call.arg)
            /\ areBoardsEqual(call.out[key].newBoard, call.arg) =>
                   /\ call.out[key].score = 0
                   /\ areBoardsEqual(call.again[key].newBoard, call.out[key].newBoard)
                   /\ call.again[key].score = 0

C25_Witness ==
    /\ call.fn = "moves"
    /\ call.arg = <<(<<2, 4, 2>>), (<<4, 0, 0>>), (<<2, 0, 0>>)>>
    /\ call.out["ArrowLeft"] = [newBoard |-> call.arg, score |-> 0]
    /\ call.again["ArrowLeft"] = [newBoard |-> call.arg, score |-> 0]
    /\ call.out["ArrowRight"].newBoard # call.arg

-----------------------------------------------------------------------------
(* Where the rotations put each cell.                                      *)

\* C26: rotateRight places the cell at (r, c) of an N x N grid at (c, N-1-r) and
\* rotateLeft places it at (N-1-c, r); both return an N x N grid, for every N >= 1.
\* (With indices from 1: (r, c) goes to (c, N+1-r) and to (N+1-c, r).)
C26_RotationsPlaceEachCell ==
    call.fn = "rotate" =>
        LET N == Len(call.arg)
        IN  /\ IsBoardOfSize(call.right, N)
            /\ IsBoardOfSize(call.left, N)
            /\ \A r \in 1..N : \A c \in 1..N :
                  /\ call.right[c][N + 1 - r] = call.arg[r][c]
                  /\ call.left[N + 1 - c][r] = call.arg[r][c]

C26_Witness ==
    /\ call.fn = "rotate"
    /\ call.arg = <<(<<2, 4>>), (<<0, 2>>)>>
    /\ call.right = <<(<<0, 2>>), (<<2, 4>>)>>
    /\ call.left = <<(<<4, 2>>), (<<2, 0>>)>>

-----------------------------------------------------------------------------
(* The largest tile.                                                       *)

-----------------------------------------------------------------------------
(* The sum of the tiles.                                                   *)

\* C28: tile mass is conserved.  Each of the four moves returns a board whose cells
\* sum to the sum of the input board's cells; each committed input raises the board
\* sum by exactly the value of the tile it spawned, a 2 or a 4; so the board sum
\* always equals the sum of the tiles spawned since the last (re)start.
C28_TileMassIsConserved ==
    /\ [](/\ TileSum(board) = spawned
          /\ \A key \in Directions : TileSum(moveFunc(key, board).newBoard) = TileSum(board))
    /\ [][(last'.op = "move" /\ last'.outcome = "committed") =>
             /\ spawned' - spawned \in {2, 4}
             /\ TileSum(board') = TileSum(board) + (spawned' - spawned)]_vars

C28_Witness ==
    /\ last.op = "move" /\ last.outcome = "committed"
    /\ tape = 301
    /\ spawned = 1208
    /\ TileSum(board) = 1208

-----------------------------------------------------------------------------
(* A 2 x 2 session played to its end: every input, no restart and no bound *)
(* on the moves.  The player who keeps entering directions that change the *)
(* board is the fairness condition.                                        *)

EndKeyDown(key) ==
    /\ KeyDown(key)
    /\ UNCHANGED <<restarts, resizes, tape, call>>

NextEnd == \E key \in Directions : EndKeyDown(key)

\* some direction changes the board and the game is not over
CanPlayOn == \E key \in Directions : Commits(key)

\* a step of NextEnd whose input commits a move
PlayOn == CanPlayOn /\ last'.op = "move" /\ last'.outcome = "committed"

\* weak fairness of PlayOn, with CanPlayOn for ENABLED <<PlayOn>>_vars: the player does
\* not stop, or enter only directions that change nothing, while some direction
\* changes the board
PlayerPlaysOn == []<>(~CanPlayOn) \/ []<><<PlayOn>>_vars

SpecEnd == Init /\ [][NextEnd]_vars /\ PlayerPlaysOn

\* C29: every session ends.  Without a restart only finitely many inputs are
\* accepted: from some point on no input commits a move, and for the player who keeps
\* entering board-changing directions that point is game over.
C29_EverySessionEnds ==
    /\ <>isGameOver
    /\ <>[][~(last'.op = "move" /\ last'.outcome = "committed")]_vars

C29_Witness ==
    /\ isGameOver /\ ~hasWon
    /\ last.op = "move" /\ last.outcome = "committed"
    /\ moves >= 8
    /\ ~HasLegalMove(board)

-----------------------------------------------------------------------------
(* Opposite directions.                                                    *)

\* C30: opposite directions score the same: for every board, moveLeft and moveRight
\* return equal score deltas, and moveUp and moveDown return equal score deltas, even
\* when their result boards differ (as for the row [2,2,2,0]).
C30_OppositeMovesScoreTheSame ==
    call.fn = "moves" =>
        /\ call.out["ArrowLeft"].score = call.out["ArrowRight"].score
        /\ call.out["ArrowUp"].score = call.out["ArrowDown"].score

C30_Witness ==
    /\ call.fn = "moves"
    /\ call.arg = ThreeTwosBoard
    /\ call.out["ArrowLeft"].newBoard[1] = <<4, 2, 0, 0>>
    /\ call.out["ArrowRight"].newBoard[1] = <<0, 0, 2, 4>>
    /\ call.out["ArrowLeft"].score = 16
    /\ call.out["ArrowRight"].score = 16
    /\ call.out["ArrowUp"].score = 8
    /\ call.out["ArrowDown"].score = 8

====
